---- MODULE Spec2Model ----
(***************************************************************************)
(* Model of the data utilities of the Solar Challenge dashboard            *)
(* (src/notebooks/app/utils.py): load_country_data, load_all_countries,    *)
(* preprocess_data, filter_data, calculate_summary_stats and               *)
(* get_top_n_records.                                                      *)
(*                                                                         *)
(* A table (DataFrame) is a sequence of rows; a row is a function from     *)
(* column names to values.  A missing value (NaN) is the marker NaN; the   *)
(* metric values of the model are naturals.  A timestamp is the integer    *)
(* yyyymmdd of a valid calendar date, so that the order of timestamps is   *)
(* the order of these integers.  Numbers with two decimals (the rounded    *)
(* statistics) are integers counting hundredths.                           *)
(***************************************************************************)
EXTENDS Integers, Sequences, FiniteSets, TLC

VARIABLES
    pc,     \* the operation that ran last ("start" before any)
    files,  \* the data directory: country id -> what reading its CSV gives
    df,     \* the table handed to the operation
    args,   \* the other arguments of the call
    out,    \* what the call returned or raised
    prev    \* filter_data: the call whose result is filtered again

vars == <<pc, files, df, args, out, prev>>

\* pandas' missing value
NaN == -1

None == [isNone |-> TRUE]

-----------------------------------------------------------------------------
(* Bounds *)

MaxFileRows == 2     \* rows of one country's CSV file
MaxCountries == 3    \* length of the list of countries asked for
MaxRows == 3         \* rows of a raw table with free dates, metrics and countries
MaxDateRows == 2     \* rows of a raw table with free (YEAR, MO, DY)
MaxFillRows == 6     \* rows of a raw table with one row a day and free T2M
MaxFilterRows == 3   \* rows of a dataset that is filtered
MaxTopRows == 3      \* rows of a dataset whose extremes are asked for
MaxN == 4            \* n of get_top_n_records is in -MaxN..MaxN
MaxStatRows == 3     \* rows of a dataset that is summarised
MaxStatValue == 3    \* its metric values are null or in 1..MaxStatValue
MaxRamp == 5         \* rows of a one-country dataset with the values 1, 2, 3, ...
MaxFrameRows == 2    \* rows of a table handed to a sequence of calls
MaxCalls == 2        \* calls of such a sequence

-----------------------------------------------------------------------------
(* Generic helpers *)

Range(s) == {s[i] : i \in 1..Len(s)}

RECURSIVE Flatten(_)
Flatten(ss) == IF ss = <<>> THEN <<>> ELSE Head(ss) \o Flatten(Tail(ss))

SeqsUpTo(S, n) == UNION {[1..k -> S] : k \in 0..n}

-----------------------------------------------------------------------------
(* load_country_data, load_all_countries *)

DefaultCountries == <<"benin", "sierra_leone", "togo">>

CountryIds == Range(DefaultCountries)

\* the names a caller may pass: the ids, and one written with a hyphen
CountryNames == CountryIds \cup {"sierra-leone"}

\* country.replace("-", "_")
ReplaceHyphen(name) == IF name = "sierra-leone" THEN "sierra_leone" ELSE name

\* country_name.replace("_", " ").title()
TitleCase(name) ==
    CASE name = "benin" -> "Benin"
      [] name = "sierra_leone" -> "Sierra Leone"
      [] name = "togo" -> "Togo"
      [] OTHER -> name

\* the i-th data row of a CSV file (the files hold no Country column)
CsvRow(i) == [YEAR |-> 2020, MO |-> 1, DY |-> i, T2M |-> i, WS10M_MIN |-> NaN]

CsvTable(k) == [i \in 1..k |-> CsvRow(i)]

\* what reading <country>_clean.csv can give: no such file, a file pandas
\* cannot read, or a table
FileOutcomes ==
    {[status |-> "FileNotFoundError"], [status |-> "ParserError"]}
        \cup {[status |-> "ok", rows |-> CsvTable(k)] : k \in 0..MaxFileRows}

\* df["Country"] = ...
WithCountry(row, country) ==
    [c \in DOMAIN row \cup {"Country"} |-> IF c = "Country" THEN country ELSE row[c]]

load_country_data(country_name, dir) ==
    IF country_name \notin DOMAIN dir \/ dir[country_name].status = "FileNotFoundError"
    THEN [status |-> "FileNotFoundError"]
    ELSE IF dir[country_name].status # "ok"
    THEN [status |-> dir[country_name].status]
    ELSE [status |-> "ok",
          rows |-> [i \in 1..Len(dir[country_name].rows) |->
                        WithCountry(dir[country_name].rows[i], TitleCase(country_name))]]

\* one turn of the loop: the try block and its two except clauses
LoadStep(acc, country, dir) ==
    LET r == load_country_data(country, dir) IN
    IF r.status = "ok"
    THEN [acc EXCEPT !.dataframes = Append(@, r.rows)]
    ELSE IF r.status = "FileNotFoundError"
    THEN [acc EXCEPT !.warnings = Append(@, country)]
    ELSE [acc EXCEPT !.errors = Append(@, country)]

RECURSIVE LoadLoop(_, _, _)
LoadLoop(acc, countries, dir) ==
    IF countries = <<>> THEN acc
    ELSE LoadLoop(LoadStep(acc, Head(countries), dir), Tail(countries), dir)

\* a merge that gives up as soon as one country cannot be loaded
load_all_countries_strict(countries, dir) ==
    LET given == IF countries.isNone THEN DefaultCountries ELSE countries.list
        names == [i \in 1..Len(given) |-> ReplaceHyphen(given[i])]
        acc == LoadLoop([dataframes |-> <<>>, warnings |-> <<>>, errors |-> <<>>],
                        names, dir)
    IN  IF acc.dataframes = <<>> \/ acc.warnings # <<>> \/ acc.errors # <<>>
        THEN [err |-> "ValueError", rows |-> <<>>,
              warnings |-> acc.warnings, errors |-> acc.errors]
        ELSE [err |-> "none", rows |-> Flatten(acc.dataframes),
              warnings |-> acc.warnings, errors |-> acc.errors]

load_all_countries(countries, dir) ==
    LET given == IF countries.isNone THEN DefaultCountries ELSE countries.list
        names == [i \in 1..Len(given) |-> ReplaceHyphen(given[i])]
        acc == LoadLoop([dataframes |-> <<>>, warnings |-> <<>>, errors |-> <<>>],
                        names, dir)
    IN  IF acc.dataframes = <<>>
        THEN [err |-> "ValueError", rows |-> <<>>,
              warnings |-> acc.warnings, errors |-> acc.errors]
        ELSE [err |-> "none", rows |-> Flatten(acc.dataframes),
              warnings |-> acc.warnings, errors |-> acc.errors]

\* the countries argument: None (the default), or a list of names
CountriesArgs ==
    {[isNone |-> TRUE, list |-> <<>>]}
        \cup {[isNone |-> FALSE, list |-> l] : l \in SeqsUpTo(CountryNames, MaxCountries)}

NoCall == [err |-> "none", rows |-> <<>>]

InitLoad ==
    /\ pc = "start"
    /\ files \in [CountryIds -> FileOutcomes]
    /\ df = <<>>
    /\ args = None
    /\ out = NoCall
    /\ prev = None

LoadAll ==
    /\ pc = "start"
    /\ \E countries \in CountriesArgs :
        /\ args' = [countries |-> countries]
        /\ out' = load_all_countries(countries, files)
    /\ pc' = "load_all_countries"
    /\ UNCHANGED <<files, df, prev>>

NextLoad == LoadAll

SpecLoad == InitLoad /\ [][NextLoad]_vars

-----------------------------------------------------------------------------
(* preprocess_data *)

required_cols == <<"YEAR", "MO", "DY", "T2M", "WS10M_MIN", "Country">>

\* a check that stops at the first column it misses
missing_cols_first(t) ==
    LET all == SelectSeq(required_cols, LAMBDA col : col \notin t.columns)
    IN  IF all = <<>> THEN <<>> ELSE <<Head(all)>>

\* [col for col in required_cols if col not in df_processed.columns]
missing_cols(t) == SelectSeq(required_cols, LAMBDA col : col \notin t.columns)

IsLeapYear(y) == (y % 4 = 0 /\ y % 100 # 0) \/ y % 400 = 0

DaysInMonth(y, m) ==
    IF m = 2 THEN (IF IsLeapYear(y) THEN 29 ELSE 28)
    ELSE IF m \in {4, 6, 9, 11} THEN 30 ELSE 31

\* pd.to_datetime of a (year, month, day) frame first folds the three columns
\* into one number, year * 10000 + month * 100 + day ...
Assemble(row) == row["YEAR"] * 10000 + row["MO"] * 100 + row["DY"]

\* ... and then reads that number with the format %Y%m%d: the last two digits
\* are the day, the two before them the month, the rest the year
YmdYear(v) == v \div 10000
YmdMonth(v) == (v \div 100) % 100
YmdDay(v) == v % 100

ParsesYmd(v) ==
    /\ v >= 0
    /\ YmdMonth(v) \in 1..12
    /\ YmdDay(v) \in 1..DaysInMonth(YmdYear(v), YmdMonth(v))

\* the timestamp of a parsed number, as yyyymmdd
Timestamp(v) == YmdYear(v) * 10000 + YmdMonth(v) * 100 + YmdDay(v)

\* Index.is_monotonic_increasing
IsMonotonicIncreasing(keys) == \A i \in 1..Len(keys) - 1 : keys[i] <= keys[i + 1]

Indexers(n) == {p \in [1..n -> 1..n] : \A i, j \in 1..n : p[i] = p[j] => i = j}

\* a frame that is indexed but never sorted
SortIndexers_unsorted(keys) == {[i \in 1..Len(keys) |-> i]}

\* sort_index(): an index that is already non-decreasing is kept as it is;
\* otherwise the rows are taken in the order of an argsort of kind
\* "quicksort", which is not stable: rows with equal keys can come out in any
\* order
SortIndexers(keys) ==
    IF IsMonotonicIncreasing(keys) THEN {[i \in 1..Len(keys) |-> i]}
    ELSE {p \in Indexers(Len(keys)) :
            \A i \in 1..Len(keys) - 1 : keys[p[i]] <= keys[p[i + 1]]}

\* Series.ffill(): a missing value takes the last value seen before it
ffill(col) ==
    LET f[i \in 0..Len(col)] ==
            IF i = 0 THEN NaN ELSE IF col[i] # NaN THEN col[i] ELSE f[i - 1]
    IN  [i \in 1..Len(col) |-> f[i]]

\* Series.bfill(): a missing value takes the next value seen after it
bfill(col) ==
    LET b[i \in 1..Len(col) + 1] ==
            IF i = Len(col) + 1 THEN NaN ELSE IF col[i] # NaN THEN col[i] ELSE b[i + 1]
    IN  [i \in 1..Len(col) |-> b[i]]

\* the two fills in the other order
FillColumn_bfill_first(col) == ffill(bfill(col))

\* df[metric].ffill().bfill()
FillColumn(col) == bfill(ffill(col))

Column(rows, c) == [i \in 1..Len(rows) |-> rows[i][c]]

\* the rows with column c replaced by col
SetColumn(rows, c, col) ==
    [i \in 1..Len(rows) |-> [k \in DOMAIN rows[i] \cup {c} |-> IF k = c THEN col[i] ELSE rows[i][k]]]

\* the frame indexed by Timestamp, its rows taken in the order of the indexer,
\* then the two metrics filled one after the other
SortedAndFilled(t, order) ==
    LET stamped == SetColumn(t.rows, "Timestamp",
                             [i \in 1..Len(t.rows) |-> Timestamp(Assemble(t.rows[i]))])
        sorted == [i \in 1..Len(order) |-> stamped[order[i]]]
        filledT == SetColumn(sorted, "T2M", FillColumn(Column(sorted, "T2M")))
    IN  SetColumn(filledT, "WS10M_MIN", FillColumn(Column(filledT, "WS10M_MIN")))

\* every result preprocess_data can give for the table t
preprocess_data(t) ==
    IF missing_cols(t) # <<>>
    THEN {[err |-> "ValueError", msg |-> "Missing required columns",
           missing |-> missing_cols(t)]}
    ELSE IF \E i \in 1..Len(t.rows) : ~ParsesYmd(Assemble(t.rows[i]))
    THEN {[err |-> "ValueError", msg |-> "cannot assemble the datetimes"]}
    ELSE {[err |-> "none", columns |-> t.columns, index |-> "Timestamp",
           order |-> order, rows |-> SortedAndFilled(t, order)] :
            order \in SortIndexers([i \in 1..Len(t.rows) |-> Timestamp(Assemble(t.rows[i]))])}

(* The raw tables preprocess_data is given *)

Ymd(y, m, d) == [YEAR |-> y, MO |-> m, DY |-> d]

RawRow(date, t2m, ws, country) ==
    [YEAR |-> date.YEAR, MO |-> date.MO, DY |-> date.DY,
     T2M |-> t2m, WS10M_MIN |-> ws, Country |-> country]

AllColumns == Range(required_cols)

\* tables with free dates and metric values, the countries alternating
GenericDates == {Ymd(2020, 12, 1), Ymd(2021, 1, 2)}

GenericCells == GenericDates \X {NaN, 5, 8} \X {NaN, 1}

GenericRow(i, cell) ==
    RawRow(cell[1], cell[2], cell[3], IF i % 2 = 1 THEN "Benin" ELSE "Togo")

GenericTables ==
    {[columns |-> AllColumns, rows |-> [i \in 1..Len(cells) |-> GenericRow(i, cells[i])]] :
        cells \in SeqsUpTo(GenericCells, MaxRows)}

\* tables with free (YEAR, MO, DY): dates of the calendar, and triples that
\* are no date of the calendar
DateTriples ==
    {Ymd(2020, 2, 29), Ymd(2021, 2, 29), Ymd(2021, 2, 28), Ymd(2021, 13, 1),
     Ymd(2021, 4, 31), Ymd(2021, 0, 131)}

DateTables ==
    {[columns |-> AllColumns, rows |-> rows] :
        rows \in SeqsUpTo({RawRow(d, 5, 1, "Benin") : d \in DateTriples}, MaxDateRows)}

\* tables that lack columns, or hold one more: no row, a row with a date, or
\* a row with (2021, 2, 29)
Restrict(row, cols) == [c \in cols |-> row[c]]

ColumnTables ==
    {[columns |-> cols, rows |-> [i \in 1..Len(rows) |-> Restrict(rows[i], cols)]] :
        cols \in SUBSET (AllColumns \cup {"RH2M"}),
        rows \in {<<>>,
                  <<WithCountry(RawRow(Ymd(2021, 2, 28), NaN, 1, "Togo"), "Togo") @@ [RH2M |-> 1]>>,
                  <<WithCountry(RawRow(Ymd(2021, 2, 29), NaN, 1, "Togo"), "Togo") @@ [RH2M |-> 1]>>}}

\* tables with one row a day, the countries alternating, and free T2M
FillRow(i, t2m) ==
    RawRow(Ymd(2020, 3, i), t2m, 1, IF i % 2 = 1 THEN "Benin" ELSE "Togo")

FillTables ==
    {[columns |-> AllColumns, rows |-> [i \in 1..Len(col) |-> FillRow(i, col[i])]] :
        col \in SeqsUpTo({NaN, 5, 8}, MaxFillRows)}

RawTables == GenericTables \cup DateTables \cup ColumnTables \cup FillTables

InitPre ==
    /\ pc = "start"
    /\ files = <<>>
    /\ df \in RawTables
    /\ args = None
    /\ out = NoCall
    /\ prev = None

Preprocess ==
    /\ pc = "start"
    /\ out' \in preprocess_data(df)
    /\ pc' = "preprocess_data"
    /\ UNCHANGED <<files, df, args, prev>>

NextPre == Preprocess

SpecPre == InitPre /\ [][NextPre]_vars

-----------------------------------------------------------------------------
(* filter_data *)

\* the frame a successful preprocess_data returns
Frame(o) == [columns |-> o.columns, index |-> o.index, rows |-> o.rows]

\* a filter that cuts the range off by dropping the last row it kept
filter_data_drop_last(t, countries, date_range) ==
    LET by_country == SelectSeq(t.rows, LAMBDA r : r["Country"] \in countries)
        by_date == SelectSeq(by_country, LAMBDA r : r["Timestamp"] >= date_range[1]
                                                    /\ r["Timestamp"] <= date_range[2])
    IN  [err |-> "none", columns |-> t.columns, index |-> t.index,
         rows |-> SubSeq(by_date, 1, Len(by_date) - 1)]

\* a filter whose end date is exclusive
filter_data_before_end(t, countries, date_range) ==
    LET by_country == SelectSeq(t.rows, LAMBDA r : r["Country"] \in countries)
    IN  [err |-> "none", columns |-> t.columns, index |-> t.index,
         rows |-> SelectSeq(by_country, LAMBDA r : r["Timestamp"] >= date_range[1]
                                                   /\ r["Timestamp"] < date_range[2])]

filter_data(t, countries, date_range) ==
    LET \* df[df["Country"].isin(countries)].copy()
        by_country == SelectSeq(t.rows, LAMBDA r : r["Country"] \in countries)
        start_date == date_range[1]
        end_date == date_range[2]
    IN  [err |-> "none", columns |-> t.columns, index |-> t.index,
         rows |-> SelectSeq(by_country, LAMBDA r : r["Timestamp"] >= start_date
                                                   /\ r["Timestamp"] <= end_date)]

(* The datasets filter_data is given: what preprocess_data returns for the raw
   tables of up to MaxFilterRows rows over three days and two countries *)

FilterDates == {Ymd(2020, 12, 31), Ymd(2021, 1, 1), Ymd(2021, 1, 2)}

FilterRawTables ==
    {[columns |-> AllColumns, rows |-> rows] :
        rows \in SeqsUpTo({RawRow(d, 5, 1, c) : d \in FilterDates, c \in {"Benin", "Togo"}},
                          MaxFilterRows)}

FilterTables ==
    UNION {{Frame(o) : o \in preprocess_data(t)} : t \in FilterRawTables}

\* the collections of countries asked for; Ghana is in no dataset
CountryChoices == {{}, {"Benin"}, {"Togo", "Ghana"}, {"Benin", "Togo"}}

\* the dates a range is made of, as timestamps
RangeDates == {Timestamp(Assemble(d)) : d \in FilterDates}

InitFilter ==
    /\ pc = "start"
    /\ files = <<>>
    /\ df \in FilterTables
    /\ args = None
    /\ out = NoCall
    /\ prev = None

Filter ==
    /\ pc = "start"
    /\ \E countries \in CountryChoices, s \in RangeDates, e \in RangeDates :
        /\ args' = [countries |-> countries, date_range |-> <<s, e>>]
        /\ out' = filter_data(df, countries, <<s, e>>)
    /\ pc' = "filter_data"
    /\ UNCHANGED <<files, df, prev>>

\* the result of filter_data filtered again: same countries, the same range or
\* a wider one
FilterAgain ==
    /\ pc = "filter_data"
    /\ \E s \in RangeDates, e \in RangeDates :
        /\ s <= args.date_range[1] /\ args.date_range[2] <= e
        /\ args' = [countries |-> args.countries, date_range |-> <<s, e>>]
        /\ out' = filter_data(Frame(out), args.countries, <<s, e>>)
    /\ df' = Frame(out)
    /\ prev' = [df |-> df, args |-> args]
    /\ pc' = "filter_data_again"
    /\ UNCHANGED files

NextFilter == Filter \/ FilterAgain

SpecFilter == InitFilter /\ [][NextFilter]_vars

-----------------------------------------------------------------------------
(* get_top_n_records *)

\* the positions of the non-null and of the null values of a column
NotNaPositions(col) == {i \in 1..Len(col) : col[i] # NaN}

\* a sort that ignores the direction asked for
SortValuesIndexers_ascending(col, ascending) ==
    {p \in Indexers(Len(col)) :
        LET k == Cardinality(NotNaPositions(col)) IN
        /\ \A i \in 1..k : p[i] \in NotNaPositions(col)
        /\ \A i \in 1..k - 1 : col[p[i]] <= col[p[i + 1]]
        /\ \A i \in k + 1..Len(col) - 1 : p[i] < p[i + 1]}

\* sort_values(by=metric, ascending=ascending): an argsort of kind "quicksort"
\* (not stable: equal values can come out in any order) of the non-null
\* values, in the direction asked for, followed by the null ones in frame
\* order (na_position="last")
SortValuesIndexers(col, ascending) ==
    {p \in Indexers(Len(col)) :
        LET k == Cardinality(NotNaPositions(col)) IN
        /\ \A i \in 1..k : p[i] \in NotNaPositions(col)
        /\ \A i \in 1..k - 1 :
              IF ascending THEN col[p[i]] <= col[p[i + 1]] ELSE col[p[i]] >= col[p[i + 1]]
        /\ \A i \in k + 1..Len(col) - 1 : p[i] < p[i + 1]}

\* DataFrame.head(n): the first n rows, and for a negative n all rows but the
\* last -n
HeadCount(len, n) ==
    IF n >= 0 THEN (IF n < len THEN n ELSE len)
    ELSE (IF len + n > 0 THEN len + n ELSE 0)

\* top_n[["Country", metric]].reset_index(), the columns renamed
TopRecord(row, metric) ==
    [c \in {"Date", "Country", metric} |->
        IF c = "Date" THEN row["Timestamp"] ELSE row[c]]

\* every result get_top_n_records can give
get_top_n_records(t, metric, n, ascending) ==
    {[err |-> "none", columns |-> <<"Date", "Country", metric>>,
      picked |-> SubSeq(p, 1, HeadCount(Len(t.rows), n)),
      rows |-> [i \in 1..HeadCount(Len(t.rows), n) |-> TopRecord(t.rows[p[i]], metric)]] :
        p \in SortValuesIndexers(Column(t.rows, metric), ascending)}

(* The datasets get_top_n_records is given: what preprocess_data returns for
   the raw tables of up to MaxTopRows rows, each of one of two country-days,
   with a free T2M and no WS10M_MIN at all *)

TopRawRows ==
    {RawRow(Ymd(2021, 1, 1), t, NaN, "Benin") : t \in {1, 2, 3}}
        \cup {RawRow(Ymd(2021, 1, 2), t, NaN, "Togo") : t \in {1, 2, 3}}

TopRawTables ==
    {[columns |-> AllColumns, rows |-> rows] : rows \in SeqsUpTo(TopRawRows, MaxTopRows)}

TopTables == UNION {{Frame(o) : o \in preprocess_data(t)} : t \in TopRawTables}

InitTop ==
    /\ pc = "start"
    /\ files = <<>>
    /\ df \in TopTables
    /\ args = None
    /\ out = NoCall
    /\ prev = None

TopN ==
    /\ pc = "start"
    /\ \E metric \in {"T2M", "WS10M_MIN"}, n \in (0 - MaxN)..MaxN, ascending \in BOOLEAN :
        /\ args' = [metric |-> metric, n |-> n, ascending |-> ascending]
        /\ out' \in get_top_n_records(df, metric, n, ascending)
    /\ pc' = "get_top_n_records"
    /\ UNCHANGED <<files, df, prev>>

NextTop == TopN

SpecTop == InitTop /\ [][NextTop]_vars

-----------------------------------------------------------------------------
(* calculate_summary_stats *)

\* the country names in the order of Python's string comparison, which is the
\* order groupby("Country") puts its groups in (sort=True)
CountryOrder == <<"Benin", "Ghana", "Sierra Leone", "Togo">>

RECURSIVE SumSeq(_)
SumSeq(xs) == IF xs = <<>> THEN 0 ELSE Head(xs) + SumSeq(Tail(xs))

SumSquares(xs) == SumSeq([i \in 1..Len(xs) |-> xs[i] * xs[i]])

\* xs with x put before the first element greater than it
RECURSIVE InsertSorted(_, _)
InsertSorted(x, xs) ==
    IF xs = <<>> THEN <<x>>
    ELSE IF x <= Head(xs) THEN <<x>> \o xs
    ELSE <<Head(xs)>> \o InsertSorted(x, Tail(xs))

RECURSIVE SortAscending(_)
SortAscending(xs) == IF xs = <<>> THEN <<>> ELSE InsertSorted(Head(xs), SortAscending(Tail(xs)))

\* round(2) of the fraction num / den (num >= 0, den > 0), in hundredths:
\* to the nearest, a tie to the even one
Round2(num, den) ==
    LET q == (100 * num) \div den
        r == (100 * num) % den
    IN  IF 2 * r < den THEN q
        ELSE IF 2 * r > den THEN q + 1
        ELSE IF q % 2 = 0 THEN q ELSE q + 1

\* the largest f in lo..hi with f * f * den <= num (there is one)
RECURSIVE FloorSqrt(_, _, _, _)
FloorSqrt(num, den, lo, hi) ==
    IF lo = hi THEN lo
    ELSE LET mid == (lo + hi + 1) \div 2
         IN  IF mid * mid * den <= num THEN FloorSqrt(num, den, mid, hi)
             ELSE FloorSqrt(num, den, lo, mid - 1)

\* round(2) of the square root of num / den, in hundredths
RoundSqrt2(num, den) ==
    LET f == FloorSqrt(10000 * num, den, 0, 100 * num + 100)
        c == (2 * f + 1) * (2 * f + 1) * den
    IN  IF c > 40000 * num THEN f
        ELSE IF c < 40000 * num THEN f + 1
        ELSE IF f % 2 = 0 THEN f ELSE f + 1

Mean(xs) == IF xs = <<>> THEN NaN ELSE Round2(SumSeq(xs), Len(xs))

Median(xs) ==
    LET sorted == SortAscending(xs)
        n == Len(xs)
    IN  IF n = 0 THEN NaN
        ELSE IF n % 2 = 1 THEN 100 * sorted[(n + 1) \div 2]
        ELSE Round2(sorted[n \div 2] + sorted[n \div 2 + 1], 2)

Min(xs) == IF xs = <<>> THEN NaN ELSE 100 * SortAscending(xs)[1]

Max(xs) == IF xs = <<>> THEN NaN ELSE 100 * SortAscending(xs)[Len(xs)]

\* the standard deviation with the denominator N
StdDev_population(xs) ==
    LET n == Len(xs) IN
    IF n < 1 THEN NaN
    ELSE RoundSqrt2(n * SumSquares(xs) - SumSeq(xs) * SumSeq(xs), n * n)

\* "std": the sample standard deviation (ddof=1), the square root of
\* sum((x - mean)^2) / (N - 1) = (N * sum(x^2) - sum(x)^2) / (N * (N - 1))
StdDev(xs) ==
    LET n == Len(xs) IN
    IF n < 2 THEN NaN
    ELSE RoundSqrt2(n * SumSquares(xs) - SumSeq(xs) * SumSeq(xs), n * (n - 1))

\* the non-null values of the metric in the rows of the country
GroupValues(t, metric, country) ==
    LET rows == SelectSeq(t.rows, LAMBDA r : r["Country"] = country /\ r[metric] # NaN)
    IN  Column(rows, metric)

SummaryRow(t, metric, country) ==
    LET xs == GroupValues(t, metric, country) IN
    [Country |-> country, Mean |-> Mean(xs), Median |-> Median(xs),
     Min |-> Min(xs), Max |-> Max(xs), StdDev |-> StdDev(xs)]

calculate_summary_stats(t, metric) ==
    LET present == {t.rows[i]["Country"] : i \in 1..Len(t.rows)}
        keys == SelectSeq(CountryOrder, LAMBDA c : c \in present)
    IN  [err |-> "none", index |-> "Country",
         columns |-> <<"Mean", "Median", "Min", "Max", "Std Dev">>,
         rows |-> [i \in 1..Len(keys) |-> SummaryRow(t, metric, keys[i])]]

(* The datasets calculate_summary_stats is given *)

StatRow(day, country, t2m) ==
    RawRow(Ymd(2021, 1, day), t2m, 1, country) @@ [Timestamp |-> 20210100 + day]

StatTable(rows) == [columns |-> AllColumns, index |-> "Timestamp", rows |-> rows]

\* up to MaxStatRows rows, one a day, each of any of three countries and with
\* any T2M, null or not
MixedStatTables ==
    {StatTable([i \in 1..Len(cells) |-> StatRow(i, cells[i][1], cells[i][2])]) :
        cells \in SeqsUpTo({"Togo", "Benin", "Sierra Leone"}
                               \X ({NaN} \cup 1..MaxStatValue),
                           MaxStatRows)}

\* one country with the T2M values 1, 2, ..., k
RampStatTables ==
    {StatTable([i \in 1..k |-> StatRow(i, "Benin", i)]) : k \in 0..MaxRamp}

StatTables == MixedStatTables \cup RampStatTables

InitStats ==
    /\ pc = "start"
    /\ files = <<>>
    /\ df \in StatTables
    /\ args = None
    /\ out = NoCall
    /\ prev = None

Summarise ==
    /\ pc = "start"
    /\ \E metric \in {"T2M", "WS10M_MIN"} :
        /\ args' = [metric |-> metric]
        /\ out' = calculate_summary_stats(df, metric)
    /\ pc' = "calculate_summary_stats"
    /\ UNCHANGED <<files, df, prev>>

NextStats == Summarise

SpecStats == InitStats /\ [][NextStats]_vars

-----------------------------------------------------------------------------
(* What a call does to the table it is given *)

(* The objects of a call are a function from the names of the call (its
   parameter df, its local variables) to the frames they name.  An assignment
   to a column, df_x[c] = ..., writes into the object df_x names; indexing
   (df[mask]), copy(), set_index(), sort_index(), sort_values(), head(),
   reset_index(), groupby().agg() and round() all give a new object. *)

\* no copy: the new name is a second name of the object of ref
CopyFrame_alias(objects, ref, new) == [objects |-> objects, ref |-> ref]

\* df.copy(): a new object with the content of the object of ref
CopyFrame(objects, ref, new) ==
    [objects |-> (new :> objects[ref]) @@ objects, ref |-> new]

\* the table the caller of preprocess_data(t) holds once the call is over: the
\* call works on df_processed = df.copy(); the one assignment made before
\* set_index() gives a new object is df_processed["Timestamp"] = ..., which
\* is reached only when no column is missing and every date is read
preprocess_data_input(t) ==
    LET c == CopyFrame(("df" :> t), "df", "df_processed")
        reached == /\ missing_cols(t) = <<>>
                   /\ \A i \in 1..Len(t.rows) : ParsesYmd(Assemble(t.rows[i]))
        written == [c.objects EXCEPT ![c.ref] =
                        [@ EXCEPT !.columns = @ \cup {"Timestamp"},
                                  !.rows = SetColumn(@, "Timestamp",
                                              [i \in 1..Len(@) |-> Timestamp(Assemble(@[i]))])]]
    IN  IF reached THEN written["df"] ELSE c.objects["df"]

\* filter_data: df[...] gives a new object, which is copied; the second
\* indexing gives one more; nothing is assigned
filter_data_input(t, countries, date_range) ==
    LET selection == [t EXCEPT !.rows = SelectSeq(@, LAMBDA r : r["Country"] \in countries)]
        c == CopyFrame(("selection" :> selection) @@ ("df" :> t), "selection", "df_filtered")
    IN  c.objects["df"]

\* calculate_summary_stats: one expression on df, nothing is assigned
calculate_summary_stats_input(t, metric) == ("df" :> t)["df"]

\* get_top_n_records: the one assignment, result.columns = [...], writes into
\* the object reset_index() gave
get_top_n_records_input(t, metric, n, ascending) ==
    LET objects == ("result" :> [columns |-> <<"index", "Country", metric>>]) @@ ("df" :> t)
        written == [objects EXCEPT !["result"].columns = <<"Date", "Country", metric>>]
    IN  written["df"]

(* The tables a sequence of calls is made on: raw tables of up to MaxFrameRows
   rows, the raw tables that lack columns or hold triples that are no date,
   and the datasets preprocess_data returns for the former *)

FrameCells == GenericDates \X {NaN, 5} \X {1}

FrameRawTables ==
    {[columns |-> AllColumns, rows |-> [i \in 1..Len(cells) |-> GenericRow(i, cells[i])]] :
        cells \in SeqsUpTo(FrameCells, MaxFrameRows)}

FrameTables ==
    FrameRawTables \cup ColumnTables \cup DateTables
        \cup UNION {{Frame(o) : o \in preprocess_data(t)} : t \in FrameRawTables}

IsDataset(t) == "index" \in DOMAIN t

InitFrame ==
    /\ pc = "start"
    /\ files = <<>>
    /\ df \in FrameTables
    /\ args = None
    /\ out = NoCall
    /\ prev = [first |-> df, df |-> df, calls |-> 0]

\* the call is one more of the sequence; prev keeps the table as it was
\* before the call, and as it was before the first call
Called(op) ==
    /\ prev.calls < MaxCalls
    /\ prev' = [first |-> prev.first, df |-> df, calls |-> prev.calls + 1]
    /\ pc' = op
    /\ UNCHANGED files

CallPreprocess ==
    /\ ~IsDataset(df)
    /\ Called("preprocess_data")
    /\ args' = None
    /\ out' \in preprocess_data(df)
    /\ df' = preprocess_data_input(df)

CallFilter ==
    /\ IsDataset(df)
    /\ Called("filter_data")
    /\ \E countries \in CountryChoices, s \in RangeDates, e \in RangeDates :
        /\ args' = [countries |-> countries, date_range |-> <<s, e>>]
        /\ out' = filter_data(df, countries, <<s, e>>)
        /\ df' = filter_data_input(df, countries, <<s, e>>)

CallSummarise ==
    /\ IsDataset(df)
    /\ Called("calculate_summary_stats")
    /\ \E metric \in {"T2M", "WS10M_MIN"} :
        /\ args' = [metric |-> metric]
        /\ out' = calculate_summary_stats(df, metric)
        /\ df' = calculate_summary_stats_input(df, metric)

CallTopN ==
    /\ IsDataset(df)
    /\ Called("get_top_n_records")
    /\ \E metric \in {"T2M", "WS10M_MIN"}, n \in (0 - MaxN)..MaxN, ascending \in BOOLEAN :
        /\ args' = [metric |-> metric, n |-> n, ascending |-> ascending]
        /\ out' \in get_top_n_records(df, metric, n, ascending)
        /\ df' = get_top_n_records_input(df, metric, n, ascending)

NextFrame == CallPreprocess \/ CallFilter \/ CallSummarise \/ CallTopN

SpecFrame == InitFrame /\ [][NextFrame]_vars

-----------------------------------------------------------------------------
(* Preprocessor *)

Preprocessed == pc = "preprocess_data" /\ out.err = "none"

Metrics == {"T2M", "WS10M_MIN"}

\* the values of column c of the raw table, in the order of the sorted frame
SortedRaw(c) == [i \in 1..Len(out.order) |-> df.rows[out.order[i]][c]]

NonNullIn(col, S) == {j \in S : col[j] # NaN}

\* the fill rule of C1 for the metric m: a non-null value is kept; a null takes
\* the value of the nearest non-null entry before it, or, when none precedes
\* it, of the nearest one after it; it stays null only when the column is null
NearestFill(m) ==
    LET col == SortedRaw(m)
        res == Column(out.rows, m)
        n == Len(col)
    IN  /\ Len(res) = n
        /\ \A i \in 1..n :
              IF col[i] # NaN THEN res[i] = col[i]
              ELSE IF NonNullIn(col, 1..i - 1) # {}
              THEN \E j \in NonNullIn(col, 1..i - 1) :
                      /\ \A k \in NonNullIn(col, 1..i - 1) : k <= j
                      /\ res[i] = col[j]
              ELSE IF NonNullIn(col, i + 1..n) # {}
              THEN \E j \in NonNullIn(col, i + 1..n) :
                      /\ \A k \in NonNullIn(col, i + 1..n) : j <= k
                      /\ res[i] = col[j]
              ELSE res[i] = NaN

ExampleColumn == <<NaN, NaN, 5, NaN, 8, NaN>>

\* C1 as stated: each metric is filled over the one date-sorted sequence of
\* all rows, whatever their country, by the nearest preceding non-null value
\* and else the nearest following one, and [null, null, 5, null, 8, null]
\* becomes [5, 5, 5, 8, 8, 8].
C1_AsStated ==
    Preprocessed =>
        \A m \in Metrics :
            /\ NearestFill(m)
            /\ SortedRaw(m) = ExampleColumn => Column(out.rows, m) = <<5, 5, 5, 8, 8, 8>>

\* C1, amended: each metric is filled over the one date-sorted sequence of all
\* rows, whatever their country, by the nearest preceding non-null value and
\* else the nearest following one; non-null values are kept and a value stays
\* null only when the whole column is null.  [null, null, 5, null, 8, null]
\* becomes [5, 5, 5, 5, 8, 8]: the null between 5 and 8 takes the 5 before it.
C1_FillNearestInSortedSequence ==
    Preprocessed =>
        \A m \in Metrics :
            /\ NearestFill(m)
            /\ SortedRaw(m) = ExampleColumn => Column(out.rows, m) = <<5, 5, 5, 5, 8, 8>>

\* the example column, over rows of two countries: the null of a Togo row
\* takes the value of the Benin row before it
C1_Witness ==
    /\ Preprocessed
    /\ SortedRaw("T2M") = ExampleColumn
    /\ Column(out.rows, "T2M") = <<5, 5, 5, 5, 8, 8>>
    /\ out.rows[3]["Country"] = "Benin" /\ out.rows[4]["Country"] = "Togo"

PassesValidation(t) ==
    /\ AllColumns \subseteq t.columns
    /\ \A i \in 1..Len(t.rows) : ParsesYmd(Assemble(t.rows[i]))

\* C2: for a raw table that passes validation the result holds exactly the
\* input records, none dropped, added or repeated (only a null metric may have
\* been filled), arranged so that the derived date never decreases.
C2_SameRecordsSortedByDate ==
    pc = "preprocess_data" /\ PassesValidation(df) =>
        /\ out.err = "none"
        /\ Len(out.rows) = Len(df.rows)
        /\ out.order \in [1..Len(df.rows) -> 1..Len(df.rows)]
        /\ \A i, j \in 1..Len(df.rows) : out.order[i] = out.order[j] => i = j
        /\ \A i \in 1..Len(df.rows) :
              /\ DOMAIN out.rows[i] = df.columns \cup {"Timestamp"}
              /\ \A c \in df.columns :
                    c \notin Metrics \/ df.rows[out.order[i]][c] # NaN
                        => out.rows[i][c] = df.rows[out.order[i]][c]
              /\ out.rows[i]["Timestamp"] =
                    out.rows[i]["YEAR"] * 10000 + out.rows[i]["MO"] * 100 + out.rows[i]["DY"]
        /\ \A i \in 1..Len(df.rows) - 1 :
              out.rows[i]["Timestamp"] <= out.rows[i + 1]["Timestamp"]

\* three rows, the latest given first and the other two of one day: the
\* latest comes out last
C2_Witness ==
    /\ Preprocessed
    /\ Len(df.rows) = 3
    /\ Assemble(df.rows[1]) > Assemble(df.rows[2])
    /\ Assemble(df.rows[2]) = Assemble(df.rows[3])
    /\ out.order[3] = 1
    /\ out.rows[1]["Timestamp"] < out.rows[3]["Timestamp"]

\* a (YEAR, MO, DY) of the calendar
IsCalendarDate(row) ==
    /\ row["MO"] \in 1..12
    /\ row["DY"] \in 1..DaysInMonth(row["YEAR"], row["MO"])

\* C7: a row whose (YEAR, MO, DY) is no calendar date makes preprocess_data
\* fail as a whole; (2021, 2, 29) fails and (2020, 2, 29) is accepted.
C7_InvalidDateFails ==
    pc = "preprocess_data" /\ AllColumns \subseteq df.columns =>
        /\ (\E i \in 1..Len(df.rows) : ~IsCalendarDate(df.rows[i])) => out.err = "ValueError"
        /\ (\A i \in 1..Len(df.rows) : IsCalendarDate(df.rows[i])) => out.err = "none"

\* C8: a raw table that lacks required columns makes preprocess_data fail with
\* an error that lists every missing column and nothing else, whatever the
\* rows hold, and no table is returned; with all six present the check raises
\* nothing.
C8_MissingColumnsListed ==
    pc = "preprocess_data" =>
        LET miss == AllColumns \ df.columns IN
        /\ miss # {} =>
              /\ out.err = "ValueError"
              /\ out.msg = "Missing required columns"
              /\ Range(out.missing) = miss
              /\ Len(out.missing) = Cardinality(miss)
              /\ "rows" \notin DOMAIN out
        /\ miss = {} => out.err = "none" \/ out.msg # "Missing required columns"

\* two columns are missing and the one row holds (2021, 2, 29): the error is
\* the one of the column check, and it names both
C8_Witness ==
    /\ pc = "preprocess_data"
    /\ df.columns = AllColumns \ {"T2M", "Country"}
    /\ Len(df.rows) = 1 /\ df.rows[1]["DY"] = 29
    /\ out.err = "ValueError"
    /\ out.missing = <<"T2M", "Country">>

\* C11: the chronological sort is stable: two records of the same date come
\* out in the relative order they have in the raw table, whatever the table.
C11_SortKeepsOrderOfEqualDates ==
    Preprocessed =>
        \A i, j \in 1..Len(out.rows) :
            i < j /\ out.rows[i]["Timestamp"] = out.rows[j]["Timestamp"]
                => out.order[i] < out.order[j]

-----------------------------------------------------------------------------
(* Filter engine *)

Filtered == pc \in {"filter_data", "filter_data_again"}

\* the positions of df whose row is of a country asked for and of a date in
\* the range, both ends included
Qualifying ==
    {i \in 1..Len(df.rows) :
        /\ df.rows[i]["Country"] \in args.countries
        /\ args.date_range[1] <= df.rows[i]["Timestamp"]
        /\ df.rows[i]["Timestamp"] <= args.date_range[2]}

\* C3: filter_data returns exactly the records whose Country is in the
\* collection and whose date is in [start, end], both ends included, in the
\* order they have in the input; when none qualifies (an empty collection,
\* start > end, ...) the result is an empty dataset and no error.
C3_FilterSelectsInOrder ==
    Filtered =>
        /\ out.err = "none"
        /\ Len(out.rows) = Cardinality(Qualifying)
        /\ \A i \in Qualifying :
              out.rows[Cardinality({j \in Qualifying : j <= i})] = df.rows[i]
        /\ (args.countries = {} \/ args.date_range[1] > args.date_range[2])
              => out.rows = <<>>

\* a row dated on the end of the range and a row dated on its start are kept,
\* in input order, and a row of another country between them is left out
C3_Witness ==
    /\ pc = "filter_data"
    /\ Len(df.rows) = 3
    /\ args.countries = {"Benin"}
    /\ args.date_range[1] < args.date_range[2]
    /\ df.rows[1]["Country"] = "Benin" /\ df.rows[1]["Timestamp"] = args.date_range[1]
    /\ df.rows[2]["Country"] = "Togo"
    /\ df.rows[3]["Country"] = "Benin" /\ df.rows[3]["Timestamp"] = args.date_range[2]
    /\ out.rows = <<df.rows[1], df.rows[3]>>

\* C10: filtering the result of filter_data(D, C, [s, e]) again with the same
\* C and the same range or a wider one returns the same records in the same
\* order.
C10_FilterIdempotent ==
    pc = "filter_data_again" =>
        /\ out.err = "none"
        /\ out.rows = df.rows
        /\ out.columns = df.columns

\* a result of two rows, a third row having been left out, is filtered again
\* with a strictly wider range and comes back as it was
C10_Witness ==
    /\ pc = "filter_data_again"
    /\ Len(prev.df.rows) = 3
    /\ Len(df.rows) = 2
    /\ args.date_range[1] < prev.args.date_range[1]
    /\ prev.args.date_range[2] < args.date_range[2]
    /\ out.rows = df.rows

-----------------------------------------------------------------------------
(* Aggregator: extremes *)

TopCalled == pc = "get_top_n_records"

\* the metric value of row i of the dataset
Value(i) == df.rows[i][args.metric]

\* v comes no later than w in the direction asked for
Before(v, w) == IF args.ascending THEN v <= w ELSE v >= w

\* C5: for n >= 1 the result holds min(n, |D|) records, each the (date,
\* country, metric value) of a record of D of its own; with ascending=False
\* they are the n largest values in non-increasing order, with ascending=True
\* the n smallest in non-decreasing order (null values count as neither: they
\* follow every non-null value).
C5_TopNExtremesInOrder ==
    TopCalled /\ args.n >= 1 =>
        LET k == Len(out.rows)
            left == (1..Len(df.rows)) \ Range(out.picked)
        IN  /\ k = IF args.n < Len(df.rows) THEN args.n ELSE Len(df.rows)
            /\ Len(out.picked) = k
            /\ \A i \in 1..k :
                  /\ out.picked[i] \in 1..Len(df.rows)
                  /\ \A j \in 1..k : out.picked[i] = out.picked[j] => i = j
                  /\ DOMAIN out.rows[i] = {"Date", "Country", args.metric}
                  /\ out.rows[i]["Date"] = df.rows[out.picked[i]]["Timestamp"]
                  /\ out.rows[i]["Country"] = df.rows[out.picked[i]]["Country"]
                  /\ out.rows[i][args.metric] = Value(out.picked[i])
            /\ \A i, j \in 1..k :
                  i < j =>
                      \/ out.rows[j][args.metric] = NaN
                      \/ /\ out.rows[i][args.metric] # NaN
                         /\ Before(out.rows[i][args.metric], out.rows[j][args.metric])
            /\ \A i \in 1..k : \A r \in left :
                  \/ Value(r) = NaN
                  \/ /\ out.rows[i][args.metric] # NaN
                     /\ Before(out.rows[i][args.metric], Value(r))

\* the two largest of three values, the largest first, the smallest left out
C5_Witness ==
    /\ TopCalled
    /\ args.metric = "T2M" /\ args.n = 2 /\ ~args.ascending
    /\ Column(df.rows, "T2M") = <<2, 1, 3>>
    /\ Column(out.rows, "T2M") = <<3, 2>>
    /\ out.rows[1]["Date"] = df.rows[3]["Timestamp"]

\* C6: with n <= 0 the result is an empty sequence.
C6_NonPositiveNGivesEmpty ==
    TopCalled /\ args.n <= 0 => out.rows = <<>>

\* C12: the ordering is stable in both directions: two records of equal
\* metric value come out in the relative order they have in the dataset, and
\* when the cut at n falls inside a group of equal values the records kept
\* are the earliest of the group in dataset order.
C12_TopNKeepsOrderOfEqualValues ==
    TopCalled /\ args.n >= 1 =>
        /\ \A i, j \in 1..Len(out.picked) :
              i < j /\ Value(out.picked[i]) = Value(out.picked[j])
                  => out.picked[i] < out.picked[j]
        /\ \A i \in 1..Len(out.picked) :
              \A r \in (1..Len(df.rows)) \ Range(out.picked) :
                  Value(r) = Value(out.picked[i]) => out.picked[i] < r

-----------------------------------------------------------------------------
(* Aggregator: summary statistics *)

Summarised == pc = "calculate_summary_stats"

\* the place of a country name in the lexicographic order of the names
LexRank(country) ==
    CASE country = "Benin" -> 1
      [] country = "Ghana" -> 2
      [] country = "Sierra Leone" -> 3
      [] country = "Togo" -> 4

\* the rows of df that count for the country: its rows with a value
Counted(country) ==
    {i \in 1..Len(df.rows) :
        df.rows[i]["Country"] = country /\ df.rows[i][args.metric] # NaN}

Val(i) == df.rows[i][args.metric]

Total(S) == SumSeq([i \in 1..Len(df.rows) |-> IF i \in S THEN Val(i) ELSE 0])

TotalSquares(S) ==
    SumSeq([i \in 1..Len(df.rows) |-> IF i \in S THEN Val(i) * Val(i) ELSE 0])

\* |a| <= b
AbsAtMost(a, b) == a <= b /\ 0 - a <= b

\* x is the k-th smallest of the values of S
IsKthSmallest(x, k, S) ==
    /\ \E i \in S : Val(i) = x
    /\ Cardinality({i \in S : Val(i) < x}) < k
    /\ Cardinality({i \in S : Val(i) <= x}) >= k

\* the row holds, in hundredths, the statistics of the values of S rounded to
\* two decimals
HoldsStatistics(row, S) ==
    LET n == Cardinality(S) IN
    IF n = 0
    THEN row.Mean = NaN /\ row.Median = NaN /\ row.Min = NaN /\ row.Max = NaN
         /\ row.StdDev = NaN
    ELSE /\ AbsAtMost(2 * (100 * Total(S) - row.Mean * n), n)
         /\ \E lo, hi \in {Val(i) : i \in S} :
               /\ IsKthSmallest(lo, (n + 1) \div 2, S)
               /\ IsKthSmallest(hi, n \div 2 + 1, S)
               /\ row.Median = 50 * (lo + hi)
         /\ \E i \in S : row.Min = 100 * Val(i)
         /\ \A i \in S : row.Min <= 100 * Val(i)
         /\ \E i \in S : row.Max = 100 * Val(i)
         /\ \A i \in S : row.Max >= 100 * Val(i)
         /\ IF n = 1 THEN row.StdDev = NaN
            ELSE LET ss == n * TotalSquares(S) - Total(S) * Total(S) IN
                 /\ row.StdDev >= 0
                 /\ (2 * row.StdDev - 1) * (2 * row.StdDev - 1) * n * (n - 1) <= 40000 * ss
                    \/ row.StdDev = 0
                 /\ 40000 * ss <= (2 * row.StdDev + 1) * (2 * row.StdDev + 1) * n * (n - 1)

\* C9: one row per distinct country of the dataset, in the lexicographic order
\* of the names; each row holds the mean, median, min, max and sample (N-1)
\* standard deviation of the non-null values of that country, rounded to two
\* decimals; one country with the values 1, 2, 3, 4, 5 gives mean 3.00, median
\* 3.00, min 1.00, max 5.00, std 1.58.
C9_SummaryPerCountry ==
    Summarised =>
        /\ {out.rows[i].Country : i \in 1..Len(out.rows)}
              = {df.rows[i]["Country"] : i \in 1..Len(df.rows)}
        /\ \A i \in 1..Len(out.rows) - 1 :
              LexRank(out.rows[i].Country) < LexRank(out.rows[i + 1].Country)
        /\ \A i \in 1..Len(out.rows) :
              HoldsStatistics(out.rows[i], Counted(out.rows[i].Country))
        /\ (/\ Column(df.rows, args.metric) = <<1, 2, 3, 4, 5>>
            /\ \A i \in 1..5 : df.rows[i]["Country"] = "Benin")
              => out.rows = <<[Country |-> "Benin", Mean |-> 300, Median |-> 300,
                               Min |-> 100, Max |-> 500, StdDev |-> 158]>>

\* the one country with the values 1, 2, 3, 4, 5
C9_Witness ==
    /\ Summarised
    /\ args.metric = "T2M"
    /\ Column(df.rows, "T2M") = <<1, 2, 3, 4, 5>>
    /\ Len(out.rows) = 1
    /\ out.rows[1].StdDev = 158

-----------------------------------------------------------------------------
(* Immutability of the tables handed in *)

\* C13: no operation changes the table it is given: after any sequence of
\* calls of preprocess_data, filter_data, calculate_summary_stats and
\* get_top_n_records the table handed in is, in its records, their order,
\* their values and its columns, what it was before the call, and so what it
\* was before the first call.
C13_InputTableUntouched ==
    pc # "start" => df = prev.df /\ df = prev.first

\* preprocess_data has been called twice on a raw table with a null T2M: the
\* result holds the filled value and a Timestamp, the raw table holds neither
C13_Witness ==
    /\ pc = "preprocess_data"
    /\ prev.calls = 2
    /\ out.err = "none"
    /\ Len(df.rows) = 2
    /\ df.rows[1]["T2M"] = NaN /\ out.rows[1]["T2M"] = 5
    /\ "Timestamp" \in DOMAIN out.rows[1]
    /\ "Timestamp" \notin DOMAIN df.rows[1]
    /\ df = prev.first

-----------------------------------------------------------------------------
(* Dataset merger *)

\* the ids asked for, after the hyphens are replaced
AskedIds ==
    LET given == IF args.countries.isNone THEN DefaultCountries ELSE args.countries.list
    IN  [i \in 1..Len(given) |-> ReplaceHyphen(given[i])]

Loads(id) == id \in DOMAIN files /\ files[id].status = "ok"

\* the table of country id as the loader returns it: the rows of its file in
\* file order, each tagged with the display name of the country
TaggedTable(id) ==
    [j \in 1..Len(files[id].rows) |->
        [c \in DOMAIN files[id].rows[j] \cup {"Country"} |->
            IF c = "Country" THEN TitleCase(id) ELSE files[id].rows[j][c]]]

\* C4: load_all_countries returns the concatenation, in the order asked for,
\* of the tables of exactly the countries whose load succeeded, each in file
\* order; a country that fails to load (no file, or any other failure) is
\* skipped; the call raises (ValueError) if and only if no country loaded.
C4_MergeToleratesFailures ==
    pc = "load_all_countries" =>
        /\ out.err \in {"none", "ValueError"}
        /\ out.err = "ValueError" <=> \A i \in 1..Len(AskedIds) : ~Loads(AskedIds[i])
        /\ out.err = "none" =>
              out.rows = Flatten([i \in 1..Len(AskedIds) |->
                                    IF Loads(AskedIds[i]) THEN TaggedTable(AskedIds[i])
                                    ELSE <<>>])

\* three countries asked for, the second has no file: the first and the last
\* are merged, in the order asked for
C4_Witness ==
    /\ pc = "load_all_countries"
    /\ ~args.countries.isNone
    /\ args.countries.list = <<"togo", "sierra-leone", "benin">>
    /\ files["sierra_leone"].status = "FileNotFoundError"
    /\ files["togo"].status = "ok" /\ Len(files["togo"].rows) = 2
    /\ files["benin"].status = "ok" /\ Len(files["benin"].rows) = 1
    /\ out.err = "none"
    /\ [i \in 1..3 |-> out.rows[i].Country] = <<"Togo", "Togo", "Benin">>
    /\ out.warnings = <<"sierra_leone">>

====
